---- MODULE Spec2Model ----
(***************************************************************************)
(* Model of the request handlers of blogicum/blog/views.py.                *)
(*                                                                         *)
(* The state is the data store the handlers query and change (users,       *)
(* categories, posts, comments), the clock read by timezone.now(), and the *)
(* last request together with the response it was given.  Every handler is *)
(* one action: it reads the request, changes the store the way the handler *)
(* does and records the response.                                          *)
(***************************************************************************)
EXTENDS Integers, Sequences, FiniteSets, TLC

VARIABLES users, categories, posts, comments, nextPostId, nextCommentId, now, resp

vars == <<users, categories, posts, comments, nextPostId, nextCommentId, now, resp>>
store == <<users, categories, posts, comments>>

----------------------------------------------------------------------------
(* Bounds of the model *)

\* primary keys handed out to posts: 1..MaxPostId
MaxPostId == 1
\* primary keys handed out to comments: 1..MaxCommentId
MaxCommentId == 1
\* the clock and the publication dates range over 0..MaxTime
MaxTime == 1
\* the largest store the pagination specification starts from
MaxBulkPosts == 23
\* the largest integer ?page= value requested
MaxPageParam == 4

\* Paginator(post_list, 10)
PerPage == 10

Anon == "anonymous"
UserNames == {"u1", "u2"}
InitialUsers == {"u1"}
Slugs == {"news", "draft"}
UnknownSlug == "nope"
ProfileValues == {0, 1}
Texts == {0, 1}
Methods == {"GET", "POST"}
Times == 0..MaxTime
\* the publication dates submitted: the start of the clock or its end
PubDates == {0, MaxTime}

\* request.GET.get('page'): absent, not a number, or an integer
NoPageParam == [kind |-> "none", n |-> 0]
PageParams ==
    {NoPageParam, [kind |-> "nan", n |-> 0]}
        \cup {[kind |-> "int", n |-> k] : k \in (-1)..MaxPageParam}

\* The data of a submitted form: ok says whether the fields are well formed.
\* A request without form data (a GET) and a malformed submission carry the
\* first, blank, form of each kind.
\* PostForm (the author is not a form field)
BlankPostForm == [ok |-> FALSE, category |-> "news", is_published |-> FALSE, pub_date |-> 0]
PostForms ==
    {BlankPostForm}
        \cup [ok : {TRUE}, category : Slugs, is_published : BOOLEAN, pub_date : PubDates]
\* CommentForm
BlankCommentForm == [ok |-> FALSE, text |-> 0]
CommentForms == {BlankCommentForm} \cup [ok : {TRUE}, text : Texts]
\* UserEditForm
BlankUserEditForm == [ok |-> FALSE, value |-> 0]
UserEditForms == {BlankUserEditForm} \cup [ok : {TRUE}, value : ProfileValues]
\* UserCreationForm
BlankUserCreationForm == [ok |-> FALSE, username |-> ""]
UserCreationForms == {BlankUserCreationForm} \cup [ok : {TRUE}, username : UserNames]

----------------------------------------------------------------------------
(* Responses *)

NoLoc == [name |-> "", id |-> 0, username |-> ""]
LoginLoc == [name |-> "login", id |-> 0, username |-> ""]
DetailLoc(id) == [name |-> "blog:post_detail", id |-> id, username |-> ""]
ProfileLoc(u) == [name |-> "blog:profile", id |-> 0, username |-> u]

BaseResp ==
    [view |-> "none", user |-> Anon, method |-> "GET",
     pid |-> 0, cid |-> 0, slug |-> "", username |-> "",
     page |-> NoPageParam, valid |-> TRUE,
     status |-> 0, template |-> "", location |-> NoLoc,
     items |-> <<>>, number |-> 0, num_pages |-> 0,
     post |-> 0, comments |-> {}]

Request(view, user, method) ==
    [BaseResp EXCEPT !.view = view, !.user = user, !.method = method]

Render(req, template) == [req EXCEPT !.status = 200, !.template = template]
NotFound(req) == [req EXCEPT !.status = 404]
NotAllowed(req) == [req EXCEPT !.status = 405]
Redirect(req, loc) == [req EXCEPT !.status = 302, !.location = loc]

----------------------------------------------------------------------------
(* The ORM queries and the paginator the handlers use *)

Min(a, b) == IF a < b THEN a ELSE b

\* request.user.is_authenticated
IsAuthenticated(u) == u \in DOMAIN users

\* .annotate(comment_count=Count('comments'))
CommentCount(p) == Cardinality({c \in DOMAIN comments : comments[c].post = p})
Annotate(p) == [id |-> p, comment_count |-> CommentCount(p)]

\* .order_by('-pub_date'); posts of equal pub_date come in primary key order
RECURSIVE OrderByPubDateDesc(_)
OrderByPubDateDesc(S) ==
    IF S = {} THEN <<>>
    ELSE LET first == CHOOSE p \in S : \A q \in S :
                          \/ posts[q].pub_date < posts[p].pub_date
                          \/ posts[q].pub_date = posts[p].pub_date /\ p <= q
         IN  <<Annotate(first)>> \o OrderByPubDateDesc(S \ {first})

\* Paginator.num_pages: an empty list still has its first page
NumPages(list) ==
    IF Len(list) = 0 THEN 1 ELSE (Len(list) + PerPage - 1) \div PerPage

\* get_page answering every bad page number with page 1
GetPageNumberFirst(list, param) ==
    IF param.kind # "int" \/ param.n < 1 \/ param.n > NumPages(list) THEN 1
    ELSE param.n

\* Paginator.get_page(number): page 1 when the number is no integer, the last
\* page when it is out of range
GetPageNumber(list, param) ==
    IF param.kind # "int" THEN 1
    ELSE IF param.n < 1 \/ param.n > NumPages(list) THEN NumPages(list)
    ELSE param.n

\* Paginator.page(n).object_list
PageItems(list, n) ==
    SubSeq(list, (n - 1) * PerPage + 1, Min(n * PerPage, Len(list)))

\* paginator = Paginator(post_list, 10); page_obj = paginator.get_page(page_number)
Paginate(req, list, param) ==
    LET n == GetPageNumber(list, param)
    IN  [req EXCEPT !.page = param, !.items = PageItems(list, n),
                    !.number = n, !.num_pages = NumPages(list)]

\* index without the category__is_published filter
IndexQueryAnyCategory ==
    {p \in DOMAIN posts : posts[p].is_published /\ posts[p].pub_date <= now}

\* index: filter(is_published=True, category__is_published=True, pub_date__lte=now)
IndexQuery ==
    {p \in DOMAIN posts : /\ posts[p].is_published
                          /\ categories[posts[p].category]
                          /\ posts[p].pub_date <= now}

\* post_detail without the Q(author=request.user) alternative
DetailQueryNoAuthor(u) ==
    {p \in DOMAIN posts : /\ posts[p].is_published
                          /\ categories[posts[p].category]
                          /\ posts[p].pub_date <= now}

\* post_detail, authenticated: Q(published, category published, pub_date <= now)
\*                             | Q(author=request.user)
DetailQueryAuthenticated(u) ==
    {p \in DOMAIN posts : \/ /\ posts[p].is_published
                             /\ categories[posts[p].category]
                             /\ posts[p].pub_date <= now
                          \/ posts[p].author = u}

\* post_detail without the pub_date__lte filter
DetailQueryAnonymousAnyDate ==
    {p \in DOMAIN posts : posts[p].is_published /\ categories[posts[p].category]}

\* post_detail, anonymous
DetailQueryAnonymous ==
    {p \in DOMAIN posts : /\ posts[p].is_published
                          /\ categories[posts[p].category]
                          /\ posts[p].pub_date <= now}

\* category_posts looking the category up among all categories
CategoryQueryAnyStatus(slug) == slug \in DOMAIN categories

\* category_posts: Category.objects.filter(is_published=True), slug=category_slug
CategoryQuery(slug) == slug \in DOMAIN categories /\ categories[slug]

\* category_posts: filter(category=category, is_published=True, pub_date__lte=now)
CategoryPostsQuery(slug) ==
    {p \in DOMAIN posts : /\ posts[p].category = slug
                          /\ posts[p].is_published
                          /\ posts[p].pub_date <= now}

\* profile, request.user == author: filter(author=author)
ProfileQueryOwner(author) == {p \in DOMAIN posts : posts[p].author = author}

\* profile, any other viewer
ProfileQueryVisitor(author) ==
    {p \in DOMAIN posts : /\ posts[p].author = author
                          /\ posts[p].is_published
                          /\ categories[posts[p].category]
                          /\ posts[p].pub_date <= now}

----------------------------------------------------------------------------
(* The read-only handlers *)

index_view(u, pg) ==
    Paginate(Render(Request("index", u, "GET"), "blog/index.html"),
             OrderByPubDateDesc(IndexQuery), pg)

post_detail_view(u, id) ==
    LET req == [Request("post_detail", u, "GET") EXCEPT !.pid = id]
        found == IF IsAuthenticated(u) THEN DetailQueryAuthenticated(u)
                 ELSE DetailQueryAnonymous
    IN  IF id \notin found THEN NotFound(req)
        ELSE [Render(req, "blog/detail.html") EXCEPT
                 !.post = id,
                 !.comments = {c \in DOMAIN comments : comments[c].post = id}]

category_posts_view(u, slug, pg) ==
    LET req == [Request("category_posts", u, "GET") EXCEPT !.slug = slug]
    IN  IF ~CategoryQuery(slug) THEN NotFound(req)
        ELSE Paginate(Render(req, "blog/category.html"),
                      OrderByPubDateDesc(CategoryPostsQuery(slug)), pg)

profile_view(u, username, pg) ==
    LET req == [Request("profile", u, "GET") EXCEPT !.username = username]
    IN  IF username \notin DOMAIN users THEN NotFound(req)
        ELSE Paginate(Render(req, "blog/profile.html"),
                      OrderByPubDateDesc(IF u = username
                                         THEN ProfileQueryOwner(username)
                                         ELSE ProfileQueryVisitor(username)), pg)

index(u, pg) ==
    /\ resp' = index_view(u, pg)
    /\ UNCHANGED <<users, categories, posts, comments, nextPostId, nextCommentId, now>>

post_detail(u, id) ==
    /\ resp' = post_detail_view(u, id)
    /\ UNCHANGED <<users, categories, posts, comments, nextPostId, nextCommentId, now>>

category_posts(u, slug, pg) ==
    /\ resp' = category_posts_view(u, slug, pg)
    /\ UNCHANGED <<users, categories, posts, comments, nextPostId, nextCommentId, now>>

profile(u, username, pg) ==
    /\ resp' = profile_view(u, username, pg)
    /\ UNCHANGED <<users, categories, posts, comments, nextPostId, nextCommentId, now>>

----------------------------------------------------------------------------
(* The handlers that change the store *)

\* is_valid() without the check that the username is free
RegistrationValidNoUnique(form) == form.ok

\* UserCreationForm.is_valid(): the data is well formed and the username is free
RegistrationValid(form) == form.ok /\ form.username \notin DOMAIN users

registration(u, method, form) ==
    LET req == [Request("registration", u, method) EXCEPT
                   !.username = form.username, !.valid = form.ok]
    IN  /\ IF method = "POST" /\ RegistrationValid(form)
           THEN /\ users' = form.username :> 0 @@ users
                /\ resp' = Redirect(req, LoginLoc)
           ELSE /\ users' = users
                /\ resp' = Render(req, "registration/registration_form.html")
        /\ UNCHANGED <<categories, posts, comments, nextPostId, nextCommentId, now>>

edit_profile(u, method, form) ==
    LET req == [Request("edit_profile", u, method) EXCEPT !.valid = form.ok]
    IN  /\ IF ~IsAuthenticated(u)
           THEN /\ users' = users
                /\ resp' = Redirect(req, LoginLoc)
           ELSE IF method = "POST" /\ form.ok
           THEN /\ users' = [users EXCEPT ![u] = form.value]
                /\ resp' = Redirect(req, ProfileLoc(u))
           ELSE /\ users' = users
                /\ resp' = Render(req, "blog/user.html")
        /\ UNCHANGED <<categories, posts, comments, nextPostId, nextCommentId, now>>

\* form.instance.author = self.request.user; form.save()
NewPost(u, data) ==
    [author |-> u, category |-> data.category,
     is_published |-> data.is_published, pub_date |-> data.pub_date]

PostCreateView(u, method, form) ==
    LET req == [Request("PostCreateView", u, method) EXCEPT !.valid = form.ok]
    IN  /\ IF ~IsAuthenticated(u)
           THEN /\ UNCHANGED <<posts, nextPostId>>
                /\ resp' = Redirect(req, LoginLoc)
           ELSE IF method = "POST" /\ form.ok
           THEN /\ nextPostId <= MaxPostId
                /\ posts' = nextPostId :> NewPost(u, form) @@ posts
                /\ nextPostId' = nextPostId + 1
                /\ resp' = Redirect([req EXCEPT !.post = nextPostId], ProfileLoc(u))
           ELSE /\ UNCHANGED <<posts, nextPostId>>
                /\ resp' = Render(req, "blog/create.html")
        /\ UNCHANGED <<users, categories, comments, nextCommentId, now>>

\* dispatch without the author check
PostDispatchNoAuthor(req, u, id) ==
    IF id \notin DOMAIN posts THEN NotFound(req)
    ELSE IF ~IsAuthenticated(u) THEN Redirect(req, LoginLoc)
    ELSE req

\* PostUpdateView.dispatch and PostDeleteView.dispatch: the checks made before
\* the generic view runs, in the order the code makes them
PostDispatch(req, u, id) ==
    IF id \notin DOMAIN posts THEN NotFound(req)
    ELSE IF posts[id].author # u THEN Redirect(req, DetailLoc(id))
    ELSE IF ~IsAuthenticated(u) THEN Redirect(req, LoginLoc)
    ELSE req

PostUpdateView(u, method, id, form) ==
    LET req == [Request("PostUpdateView", u, method) EXCEPT
                   !.pid = id, !.valid = form.ok]
        checked == PostDispatch(req, u, id)
    IN  /\ IF checked.status # 0
           THEN /\ posts' = posts
                /\ resp' = checked
           ELSE IF method = "POST" /\ form.ok
           THEN /\ posts' = [posts EXCEPT ![id] = NewPost(@.author, form)]
                /\ resp' = Redirect([req EXCEPT !.post = id], DetailLoc(id))
           ELSE /\ posts' = posts
                /\ resp' = Render([req EXCEPT !.post = id], "blog/create.html")
        /\ UNCHANGED <<users, categories, comments, nextPostId, nextCommentId, now>>

\* the comments of a deleted post go with it
CascadeComments(id) ==
    [c \in {d \in DOMAIN comments : comments[d].post # id} |-> comments[c]]

PostDeleteView(u, method, id) ==
    LET req == [Request("PostDeleteView", u, method) EXCEPT !.pid = id]
        checked == PostDispatch(req, u, id)
    IN  /\ IF checked.status # 0
           THEN /\ UNCHANGED <<posts, comments>>
                /\ resp' = checked
           ELSE IF method = "POST"
           THEN /\ posts' = [p \in DOMAIN posts \ {id} |-> posts[p]]
                /\ comments' = CascadeComments(id)
                /\ resp' = Redirect(req, ProfileLoc(u))
           ELSE /\ UNCHANGED <<posts, comments>>
                /\ resp' = Render([req EXCEPT !.post = id], "blog/detail.html")
        /\ UNCHANGED <<users, categories, nextPostId, nextCommentId, now>>

\* the comment attributed to the post's author instead of the requester
NewCommentByPostAuthor(u, id, form) ==
    [post |-> id, author |-> posts[id].author, text |-> form.text]

\* comment = form.save(commit=False); comment.post = post; comment.author = request.user
NewComment(u, id, form) == [post |-> id, author |-> u, text |-> form.text]

add_comment(u, method, id, form) ==
    LET req == [Request("add_comment", u, method) EXCEPT
                   !.pid = id, !.valid = form.ok]
    IN  /\ IF ~IsAuthenticated(u)
           THEN /\ UNCHANGED <<comments, nextCommentId>>
                /\ resp' = Redirect(req, LoginLoc)
           ELSE IF method # "POST"
           THEN /\ UNCHANGED <<comments, nextCommentId>>
                /\ resp' = NotAllowed(req)
           ELSE IF id \notin DOMAIN posts
           THEN /\ UNCHANGED <<comments, nextCommentId>>
                /\ resp' = NotFound(req)
           ELSE IF form.ok
           THEN /\ nextCommentId <= MaxCommentId
                /\ comments' = nextCommentId :> NewComment(u, id, form) @@ comments
                /\ nextCommentId' = nextCommentId + 1
                /\ resp' = Redirect([req EXCEPT !.cid = nextCommentId], DetailLoc(id))
           ELSE /\ UNCHANGED <<comments, nextCommentId>>
                /\ resp' = Redirect(req, DetailLoc(id))
        /\ UNCHANGED <<users, categories, posts, nextPostId, now>>

\* the comment looked up by its primary key alone, without post=post
CommentLookupAnyPost(req, u, pid, cid) ==
    IF ~IsAuthenticated(u) THEN Redirect(req, LoginLoc)
    ELSE IF pid \notin DOMAIN posts THEN NotFound(req)
    ELSE IF cid \notin DOMAIN comments THEN NotFound(req)
    ELSE IF comments[cid].author # u THEN Redirect(req, DetailLoc(pid))
    ELSE req

\* edit_comment and delete_comment: login_required, the two get_object_or_404
\* and the author check
CommentLookup(req, u, pid, cid) ==
    IF ~IsAuthenticated(u) THEN Redirect(req, LoginLoc)
    ELSE IF pid \notin DOMAIN posts THEN NotFound(req)
    ELSE IF cid \notin DOMAIN comments \/ comments[cid].post # pid THEN NotFound(req)
    ELSE IF comments[cid].author # u THEN Redirect(req, DetailLoc(pid))
    ELSE req

edit_comment(u, method, pid, cid, form) ==
    LET req == [Request("edit_comment", u, method) EXCEPT
                   !.pid = pid, !.cid = cid, !.valid = form.ok]
        checked == CommentLookup(req, u, pid, cid)
    IN  /\ IF checked.status # 0
           THEN /\ comments' = comments
                /\ resp' = checked
           ELSE IF method = "POST" /\ form.ok
           THEN /\ comments' = [comments EXCEPT ![cid].text = form.text]
                /\ resp' = Redirect(req, DetailLoc(pid))
           ELSE /\ comments' = comments
                /\ resp' = Render([req EXCEPT !.post = pid], "blog/comment.html")
        /\ UNCHANGED <<users, categories, posts, nextPostId, nextCommentId, now>>

delete_comment(u, method, pid, cid) ==
    LET req == [Request("delete_comment", u, method) EXCEPT !.pid = pid, !.cid = cid]
        checked == CommentLookup(req, u, pid, cid)
    IN  /\ IF checked.status # 0
           THEN /\ comments' = comments
                /\ resp' = checked
           ELSE IF method = "POST"
           THEN /\ comments' = [c \in DOMAIN comments \ {cid} |-> comments[c]]
                /\ resp' = Redirect(req, DetailLoc(pid))
           ELSE /\ comments' = comments
                /\ resp' = Render([req EXCEPT !.post = pid], "blog/comment.html")
        /\ UNCHANGED <<users, categories, posts, nextPostId, nextCommentId, now>>

\* timezone.now() advances between requests
Tick ==
    /\ now < MaxTime
    /\ now' = now + 1
    /\ resp' = BaseResp
    /\ UNCHANGED <<users, categories, posts, comments, nextPostId, nextCommentId>>

----------------------------------------------------------------------------
(* The specifications *)

Requesters == DOMAIN users \cup {Anon}
AnyPostId == 1..(MaxPostId + 1)
AnyCommentId == 1..(MaxCommentId + 1)
\* what a request of the given method carries
Sent(method, blank, forms) == IF method = "GET" THEN {blank} ELSE forms

InitCategories == [s \in Slugs |-> s = "news"]

Init ==
    /\ users = [u \in InitialUsers |-> 0]
    /\ categories = InitCategories
    /\ posts = <<>>
    /\ comments = <<>>
    /\ nextPostId = 1
    /\ nextCommentId = 1
    /\ now = 0
    /\ resp = BaseResp

ReadRequests(pages) ==
    \/ \E u \in Requesters, pg \in pages : index(u, pg)
    \/ \E u \in Requesters, id \in AnyPostId : post_detail(u, id)
    \/ \E u \in Requesters, slug \in Slugs \cup {UnknownSlug}, pg \in pages :
          category_posts(u, slug, pg)
    \/ \E u \in Requesters, username \in UserNames, pg \in pages :
          profile(u, username, pg)

UserRequests ==
    \/ \E u \in Requesters, m \in Methods :
          \E form \in Sent(m, BlankUserCreationForm, UserCreationForms) :
          registration(u, m, form)
    \/ \E u \in Requesters, m \in Methods :
          \E form \in Sent(m, BlankUserEditForm, UserEditForms) :
          edit_profile(u, m, form)

PostRequests(ids, forms) ==
    \/ \E u \in Requesters, m \in Methods : \E form \in Sent(m, BlankPostForm, forms) :
          PostCreateView(u, m, form)
    \/ \E u \in Requesters, m \in Methods, id \in ids :
          \E form \in Sent(m, BlankPostForm, forms) :
          PostUpdateView(u, m, id, form)
    \/ \E u \in Requesters, m \in Methods, id \in ids : PostDeleteView(u, m, id)

CommentRequests(pids) ==
    \/ \E u \in Requesters, m \in Methods, id \in pids :
          \E form \in Sent(m, BlankCommentForm, CommentForms) :
          add_comment(u, m, id, form)
    \/ \E u \in Requesters, m \in Methods, pid \in pids, cid \in AnyCommentId :
          \E form \in Sent(m, BlankCommentForm, CommentForms) :
          edit_comment(u, m, pid, cid, form)
    \/ \E u \in Requesters, m \in Methods, pid \in pids, cid \in AnyCommentId :
          delete_comment(u, m, pid, cid)

Next ==
    \/ ReadRequests({NoPageParam})
    \/ UserRequests
    \/ PostRequests(AnyPostId, PostForms)
    \/ CommentRequests(AnyPostId)
    \/ Tick

\* the whole application, from an empty store
Spec == Init /\ [][Next]_vars

\* Posts and their visibility: both users are registered and publish, edit
\* and delete posts while the clock advances; every listing and detail page is
\* requested by every viewer.
InitPosts ==
    /\ users = [u \in UserNames |-> 0]
    /\ categories = InitCategories
    /\ posts = <<>>
    /\ comments = <<>>
    /\ nextPostId = 1
    /\ nextCommentId = 1
    /\ now = 0
    /\ resp = BaseResp

NextPosts ==
    \/ ReadRequests({NoPageParam})
    \/ PostRequests(AnyPostId, PostForms)
    \/ Tick

SpecPosts == InitPosts /\ [][NextPosts]_vars

\* Comments: the store already holds one post of each user; comments are
\* added, edited and deleted.
SeedPosts ==
    <<[author |-> "u1", category |-> "news", is_published |-> TRUE, pub_date |-> 0],
      [author |-> "u2", category |-> "news", is_published |-> TRUE, pub_date |-> 0]>>
SeedPostIds == 1..(Len(SeedPosts) + 1)

InitComments ==
    /\ users = [u \in UserNames |-> 0]
    /\ categories = InitCategories
    /\ posts = SeedPosts
    /\ comments = <<>>
    /\ nextPostId = Len(SeedPosts) + 1
    /\ nextCommentId = 1
    /\ now = 0
    /\ resp = BaseResp

NextComments == CommentRequests(SeedPostIds)

SpecComments == InitComments /\ [][NextComments]_vars

\* Every handler that writes, from a store whose earlier posts and comments
\* have been deleted: the primary keys up to MaxPostId - 1 and
\* MaxCommentId - 1 are used up.
InitWrites ==
    /\ users = [u \in InitialUsers |-> 0]
    /\ categories = InitCategories
    /\ posts = <<>>
    /\ comments = <<>>
    /\ nextPostId = MaxPostId
    /\ nextCommentId = MaxCommentId
    /\ now = 0
    /\ resp = BaseResp

\* the post forms submitted here: a malformed one and two well-formed ones
SomePostForms ==
    {BlankPostForm,
     [BlankPostForm EXCEPT !.ok = TRUE, !.is_published = TRUE],
     [BlankPostForm EXCEPT !.ok = TRUE, !.category = "draft"]}

NextWrites ==
    \/ UserRequests
    \/ PostRequests(AnyPostId, SomePostForms)
    \/ CommentRequests(AnyPostId)

SpecWrites == InitWrites /\ [][NextWrites]_vars

\* Pagination: a store of up to MaxBulkPosts posts, of which every eleventh is
\* by the second user, every seventh in the unpublished category and every
\* fifth unpublished; only pages are requested.
BulkPost(i) ==
    [author |-> IF i % 11 = 0 THEN "u2" ELSE "u1",
     category |-> IF i % 7 = 0 THEN "draft" ELSE "news",
     is_published |-> i % 5 # 0,
     pub_date |-> i % (MaxTime + 1)]

InitPage ==
    /\ users = [u \in UserNames |-> 0]
    /\ categories = InitCategories
    /\ \E n \in 0..MaxBulkPosts :
          /\ posts = [i \in 1..n |-> BulkPost(i)]
          /\ nextPostId = n + 1
    /\ comments = <<>>
    /\ nextCommentId = 1
    /\ now \in Times
    /\ resp = BaseResp

NextPage == ReadRequests(PageParams)

SpecPage == InitPage /\ [][NextPage]_vars

----------------------------------------------------------------------------
(* The properties *)

\* a post is publicly visible: published, in a published category, not in the future
PubliclyVisible(p) ==
    /\ posts[p].is_published
    /\ categories[posts[p].category]
    /\ posts[p].pub_date <= now

ItemIds(r) == {r.items[i].id : i \in 1..Len(r.items)}
Registered(u) == u \in DOMAIN users
PostsOf(u) == {p \in DOMAIN posts : posts[p].author = u}
CountOf(cs, p) == Cardinality({c \in DOMAIN cs : cs[c].post = p})
IntPage(n) == [kind |-> "int", n |-> n]

\* C1: every post on a page of index, of category_posts, or of profile when the
\* viewer is not the profile's user, is published, in a published category and
\* has a pub_date that is not after now.
ClaimC1 ==
    (/\ resp.status = 200
     /\ \/ resp.view \in {"index", "category_posts"}
        \/ resp.view = "profile" /\ resp.user # resp.username)
    => \A p \in ItemIds(resp) : p \in DOMAIN posts /\ PubliclyVisible(p)

\* a visitor's profile page lists a post whose pub_date, once in the future,
\* has just been reached by the clock
WitnessC1 ==
    /\ resp.view = "profile"
    /\ resp.user # resp.username
    /\ now > 0
    /\ \E p \in ItemIds(resp) : posts[p].pub_date = now

\* C2: the authenticated author of a post gets the post from post_detail, never
\* not-found, and finds it on the pages of their own profile, whatever its
\* is_published, its category's is_published and its pub_date are.
ClaimC2 ==
    /\ (/\ resp.view = "post_detail"
        /\ Registered(resp.user)
        /\ resp.pid \in DOMAIN posts
        /\ posts[resp.pid].author = resp.user)
       => resp.status = 200 /\ resp.post = resp.pid
    /\ (/\ resp.view = "profile"
        /\ Registered(resp.user)
        /\ resp.user = resp.username)
       => /\ resp.status = 200
          /\ ItemIds(resp) \subseteq PostsOf(resp.user)
          /\ Len(resp.items) = Cardinality(ItemIds(resp))
          /\ Len(resp.items) =
                Min(10, Cardinality(PostsOf(resp.user)) - (resp.number - 1) * 10)
          /\ Cardinality(PostsOf(resp.user)) <= 10
                => PostsOf(resp.user) \subseteq ItemIds(resp)

\* the author opens the detail page of their own unpublished post, dated in
\* the future and filed in an unpublished category
WitnessC2 ==
    /\ resp.view = "post_detail"
    /\ resp.status = 200
    /\ resp.pid \in DOMAIN posts
    /\ posts[resp.pid].author = resp.user
    /\ ~posts[resp.pid].is_published
    /\ ~categories[posts[resp.pid].category]
    /\ posts[resp.pid].pub_date > now

\* C3: post_detail answers not-found for an unknown post id, and for a post
\* that is not publicly visible when the requester is anonymous or is not the
\* post's author.
ClaimC3 ==
    (/\ resp.view = "post_detail"
     /\ \/ resp.pid \notin DOMAIN posts
        \/ /\ ~PubliclyVisible(resp.pid)
           /\ ~Registered(resp.user) \/ posts[resp.pid].author # resp.user)
    => resp.status = 404

\* another registered user asks for a post that is not publicly visible
WitnessC3 ==
    /\ resp.view = "post_detail"
    /\ resp.status = 404
    /\ Registered(resp.user)
    /\ resp.pid \in DOMAIN posts
    /\ posts[resp.pid].author # resp.user
    /\ ~PubliclyVisible(resp.pid)

\* C8: category_posts answers not-found when no category has the slug or the
\* category is unpublished, for every requester; it lists nothing then.
ClaimC8 ==
    (/\ resp.view = "category_posts"
     /\ resp.slug \notin DOMAIN categories \/ ~categories[resp.slug])
    => resp.status = 404 /\ resp.items = <<>>

\* the author of a post in an unpublished category asks for that category
WitnessC8 ==
    /\ resp.view = "category_posts"
    /\ resp.status = 404
    /\ resp.slug \in DOMAIN categories
    /\ \E p \in PostsOf(resp.user) : posts[p].category = resp.slug

\* the endpoints behind login_required or LoginRequiredMixin
ProtectedViews ==
    {"edit_profile", "PostCreateView", "PostUpdateView", "PostDeleteView",
     "add_comment", "edit_comment", "delete_comment"}

\* the request answered in this step targets a post, or a comment of the post
\* in its address, that exists and whose author is not the requester
TargetsPostOfAnother(r) ==
    /\ r.view \in {"PostUpdateView", "PostDeleteView"}
    /\ r.pid \in DOMAIN posts
    /\ posts[r.pid].author # r.user

TargetsCommentOfAnother(r) ==
    /\ r.view \in {"edit_comment", "delete_comment"}
    /\ r.pid \in DOMAIN posts
    /\ r.cid \in DOMAIN comments
    /\ comments[r.cid].post = r.pid
    /\ comments[r.cid].author # r.user

\* C4: a request of either method by an authenticated user who is not the author
\* of the post or comment it targets, to PostUpdateView, PostDeleteView,
\* edit_comment or delete_comment, changes no post and no comment and is
\* answered by a redirect to the detail page of the post concerned.
ClaimC4 ==
    [][(/\ Registered(resp'.user)
        /\ TargetsPostOfAnother(resp') \/ TargetsCommentOfAnother(resp'))
       => /\ posts' = posts
          /\ comments' = comments
          /\ resp'.status = 302
          /\ resp'.location = DetailLoc(resp'.pid)]_vars

\* a registered user has posted a well-formed edit of another user's comment
\* and was redirected
WitnessC4 ==
    /\ resp.view = "edit_comment"
    /\ resp.method = "POST"
    /\ resp.valid
    /\ resp.status = 302
    /\ Registered(resp.user)
    /\ resp.cid \in DOMAIN comments
    /\ comments[resp.cid].post = resp.pid
    /\ comments[resp.cid].author # resp.user

\* C5: every request of an unauthenticated user to a protected endpoint is
\* answered by a redirect to the login page and leaves the store unchanged.
ClaimC5 ==
    [][(resp'.view \in ProtectedViews /\ ~Registered(resp'.user))
       => /\ resp'.status = 302
          /\ resp'.location = LoginLoc
          /\ store' = store]_vars

\* C6: for an authenticated requester and an existing post P, add_comment by
\* GET is rejected and creates no comment; by POST with valid data it adds
\* exactly one comment, of post P and by the requester, so that P's comment
\* count rises by one and no other post's comments change.
ClaimC6 ==
    [][(/\ resp'.view = "add_comment"
        /\ Registered(resp'.user)
        /\ resp'.pid \in DOMAIN posts)
       => /\ resp'.method = "GET" => resp'.status = 405 /\ comments' = comments
          /\ (resp'.method = "POST" /\ resp'.valid)
             => /\ \E c \in DOMAIN comments' \ DOMAIN comments :
                      /\ DOMAIN comments' = DOMAIN comments \cup {c}
                      /\ comments'[c].post = resp'.pid
                      /\ comments'[c].author = resp'.user
                /\ \A d \in DOMAIN comments : comments'[d] = comments[d]
                /\ \A q \in DOMAIN posts :
                      CountOf(comments', q) =
                         CountOf(comments, q) + (IF q = resp'.pid THEN 1 ELSE 0)]_vars

\* a user has commented on the post of another user
WitnessC6 ==
    /\ resp.view = "add_comment"
    /\ resp.method = "POST"
    /\ resp.status = 302
    /\ resp.cid \in DOMAIN comments
    /\ comments[resp.cid].post = resp.pid
    /\ comments[resp.cid].author = resp.user
    /\ posts[resp.pid].author # resp.user

\* the three paginated listings
ListingAt(r, pg) ==
    CASE r.view = "index" -> index_view(r.user, pg)
      [] r.view = "category_posts" -> category_posts_view(r.user, r.slug, pg)
      [] r.view = "profile" -> profile_view(r.user, r.username, pg)

\* C7: a page of index, category_posts or profile holds at most 10 posts, and
\* when the listing has N pages a request for a page number above N returns
\* the posts of page N.
ClaimC7 ==
    (resp.view \in {"index", "category_posts", "profile"} /\ resp.status = 200)
    => /\ Len(resp.items) <= 10
       /\ resp.num_pages >= 1
       /\ (resp.page.kind = "int" /\ resp.page.n > resp.num_pages)
          => resp.items = ListingAt(resp, IntPage(resp.num_pages)).items

\* a page beyond the last of a listing of three pages was requested, and the
\* short last page came back
WitnessC7 ==
    /\ resp.view = "profile"
    /\ resp.status = 200
    /\ resp.num_pages = 3
    /\ resp.page.kind = "int"
    /\ resp.page.n > resp.num_pages
    /\ Len(resp.items) >= 1
    /\ Len(resp.items) < 10

\* the form of the POST answered in this step is checked by its handler: the
\* requester is logged in where that is required and is the author of the
\* target, which exists
ReachesValidation(r) ==
    /\ r.method = "POST"
    /\ CASE r.view = "registration" -> TRUE
         [] r.view \in {"edit_profile", "PostCreateView"} -> Registered(r.user)
         [] r.view = "PostUpdateView" ->
               /\ Registered(r.user)
               /\ r.pid \in DOMAIN posts
               /\ posts[r.pid].author = r.user
         [] r.view = "add_comment" -> Registered(r.user) /\ r.pid \in DOMAIN posts
         [] r.view = "edit_comment" ->
               /\ Registered(r.user)
               /\ r.pid \in DOMAIN posts
               /\ r.cid \in DOMAIN comments
               /\ comments[r.cid].post = r.pid
               /\ comments[r.cid].author = r.user
         [] OTHER -> FALSE

\* the form data fails validation
FailsValidation(r) ==
    \/ ~r.valid
    \/ r.view = "registration" /\ r.username \in DOMAIN users

FormTemplates ==
    {"registration/registration_form.html", "blog/user.html", "blog/create.html",
     "blog/comment.html"}

\* C9 as claimed: at every form-handling endpoint a POST whose form data fails
\* validation leaves the store unchanged and is answered by re-rendering the
\* form, not by a redirect.
ClaimC9Original ==
    [][(ReachesValidation(resp') /\ FailsValidation(resp'))
       => /\ store' = store
          /\ resp'.status = 200
          /\ resp'.template \in FormTemplates]_vars

\* C9, amended: at every form-handling endpoint a POST whose form data fails
\* validation leaves the store unchanged; registration, edit_profile,
\* PostCreateView, PostUpdateView and edit_comment answer by re-rendering the
\* form, add_comment answers by a redirect to the detail page of the post.
ClaimC9 ==
    [][(ReachesValidation(resp') /\ FailsValidation(resp'))
       => /\ store' = store
          /\ IF resp'.view = "add_comment"
             THEN resp'.status = 302 /\ resp'.location = DetailLoc(resp'.pid)
             ELSE resp'.status = 200 /\ resp'.template \in FormTemplates]_vars

\* the author of a comment has posted a malformed edit of it and got the form back
WitnessC9 ==
    /\ resp.view = "edit_comment"
    /\ resp.method = "POST"
    /\ ~resp.valid
    /\ resp.status = 200
    /\ resp.template = "blog/comment.html"
    /\ resp.cid \in DOMAIN comments
    /\ comments[resp.cid].author = resp.user

\* C10: edit_comment and delete_comment answer not-found and change no
\* comment when the post id is unknown, the comment id is unknown or the
\* comment belongs to another post, even for the comment's author.
ClaimC10 ==
    [][(/\ resp'.view \in {"edit_comment", "delete_comment"}
        /\ Registered(resp'.user)
        /\ \/ resp'.pid \notin DOMAIN posts
           \/ resp'.cid \notin DOMAIN comments
           \/ comments[resp'.cid].post # resp'.pid)
       => resp'.status = 404 /\ comments' = comments]_vars

\* the author of a comment has posted its deletion under the address of
\* another existing post and got not-found
WitnessC10 ==
    /\ resp.view = "delete_comment"
    /\ resp.method = "POST"
    /\ resp.status = 404
    /\ resp.pid \in DOMAIN posts
    /\ resp.cid \in DOMAIN comments
    /\ comments[resp.cid].author = resp.user
    /\ comments[resp.cid].post # resp.pid

====
